---- MODULE Spec2Model ----
(***************************************************************************)
(* A model of the collaborative editor's replicated character log:        *)
(* CRDTEngine (fractional positions, Lamport clock, document projection), *)
(* the CollaborativeEditor component that drives it against the shared    *)
(* Operation store, and the offline operation queue.                      *)
(***************************************************************************)
EXTENDS Integers, Naturals, Sequences, FiniteSets, TLC

(***************************************************************************)
(* Arbitrary-size naturals.  A position is a decimal string with twenty   *)
(* fraction digits and parseFloat turns it into an IEEE-754 double, so    *)
(* the arithmetic of generatePosition needs more than machine integers.   *)
(* A natural is a little-endian sequence of base-10^5 limbs without        *)
(* leading zero limbs; zero is the empty sequence.                         *)
(***************************************************************************)
Base == 10 ^ 5

RECURSIVE BigNorm(_)
BigNorm(a) ==
    IF a = <<>> THEN <<>>
    ELSE IF a[Len(a)] = 0 THEN BigNorm(SubSeq(a, 1, Len(a) - 1))
    ELSE a

RECURSIVE BigMulCarry(_, _, _)
BigMulCarry(a, k, carry) ==
    IF a = <<>> THEN (IF carry = 0 THEN <<>> ELSE <<carry>>)
    ELSE LET v == Head(a) * k + carry
         IN  <<v % Base>> \o BigMulCarry(Tail(a), k, v \div Base)

\* a * k for a small factor 1 <= k <= 1024
BigMulSmall(a, k) == BigMulCarry(a, k, 0)

RECURSIVE BigDivRec(_, _, _, _)
BigDivRec(a, k, i, rem) ==
    IF i = 0 THEN <<>>
    ELSE LET v == rem * Base + a[i]
         IN  BigDivRec(a, k, i - 1, v % k) \o <<v \div k>>

\* floor(a / k) for a small divisor 1 <= k <= 1024
BigDivSmall(a, k) == BigNorm(BigDivRec(a, k, Len(a), 0))

RECURSIVE BigAddCarry(_, _, _)
BigAddCarry(a, b, carry) ==
    IF a = <<>> /\ b = <<>> THEN (IF carry = 0 THEN <<>> ELSE <<carry>>)
    ELSE LET x == IF a = <<>> THEN 0 ELSE Head(a)
             y == IF b = <<>> THEN 0 ELSE Head(b)
             v == x + y + carry
         IN  <<v % Base>> \o
             BigAddCarry(IF a = <<>> THEN <<>> ELSE Tail(a),
                         IF b = <<>> THEN <<>> ELSE Tail(b), v \div Base)

BigAdd(a, b) == BigAddCarry(a, b, 0)

RECURSIVE BigCmpFrom(_, _, _)
BigCmpFrom(a, b, i) ==
    IF i = 0 THEN 0
    ELSE IF a[i] < b[i] THEN -1
    ELSE IF a[i] > b[i] THEN 1
    ELSE BigCmpFrom(a, b, i - 1)

\* -1, 0 or 1 as a < b, a = b or a > b
BigCmp(a, b) ==
    IF Len(a) < Len(b) THEN -1
    ELSE IF Len(a) > Len(b) THEN 1
    ELSE BigCmpFrom(a, b, Len(a))

BigIsOdd(a) == a # <<>> /\ Head(a) % 2 = 1

RECURSIVE BigTimesPow2(_, _)
BigTimesPow2(a, k) ==
    IF k >= 10 THEN BigTimesPow2(BigMulSmall(a, 1024), k - 10)
    ELSE IF k > 0 THEN BigMulSmall(a, 2 ^ k)
    ELSE a

RECURSIVE BigDivPow2(_, _)
BigDivPow2(a, k) ==
    IF k >= 10 THEN BigDivPow2(BigDivSmall(a, 1024), k - 10)
    ELSE IF k > 0 THEN BigDivSmall(a, 2 ^ k)
    ELSE a

\* a * Base^j and floor(a / Base^j), a mod Base^j
BigShiftLimbs(a, j) == IF a = <<>> THEN <<>> ELSE [i \in 1..j |-> 0] \o a
BigDropLimbs(a, j) == IF Len(a) <= j THEN <<>> ELSE SubSeq(a, j + 1, Len(a))
BigLowLimbs(a, j) == BigNorm(SubSeq(a, 1, IF Len(a) < j THEN Len(a) ELSE j))

(***************************************************************************)
(* Decimal position strings and IEEE-754 doubles.                          *)
(*                                                                         *)
(* A position string "d.ffffffffffffffffffff" (toFixed(20)) is the tuple   *)
(* <<d, f1, f2, f3, f4>> of its integer digit and its twenty fraction      *)
(* digits in four groups of five.  NULL is JavaScript's null.  A double    *)
(* is [m, e] with value m * 2^(-e) and 2^52 <= m < 2^53, or Zero.          *)
(***************************************************************************)
FractionDigits == 20
MantissaBits == 53
FractionLimbs == FractionDigits \div 5

NULL == <<>>
Zero == [m |-> <<>>, e |-> 0]

TwoTo52 == BigTimesPow2(<<1>>, MantissaBits - 1)
TwoTo53 == BigTimesPow2(<<1>>, MantissaBits)
\* 10^20, and the mantissa range scaled by it
TenToDigits == BigShiftLimbs(<<1>>, FractionLimbs)
HalfUnit == BigDivSmall(TenToDigits, 2)
ScaledLo == BigShiftLimbs(TwoTo52, FractionLimbs)
ScaledHi == BigShiftLimbs(TwoTo53, FractionLimbs)
\* the literal 1
DoubleOne == [m |-> TwoTo52, e |-> MantissaBits - 1]

Reverse(s) == [i \in 1..Len(s) |-> s[Len(s) + 1 - i]]

\* the string's value in units of 10^-20
Units(s) == BigNorm(Reverse(s))

RECURSIVE ScaleUp(_, _)
ScaleUp(t, e) ==
    IF BigCmp(BigMulSmall(t, 1024), ScaledHi) < 0
    THEN ScaleUp(BigMulSmall(t, 1024), e + 10)
    ELSE IF BigCmp(t, ScaledLo) < 0 THEN ScaleUp(BigMulSmall(t, 2), e + 1)
    ELSE [t |-> t, e |-> e]

\* a mantissa that rounding carried up to 2^53 is renormalised
Renorm(m, e) ==
    IF m = TwoTo53 THEN [m |-> TwoTo52, e |-> e - 1] ELSE [m |-> m, e |-> e]

\* parseFloat: the double nearest to the decimal string, ties to even
parseFloat(s) ==
    LET n == Units(s)
    IN  IF n = <<>> THEN Zero
        ELSE LET sc == ScaleUp(n, 0)
                 q == BigDropLimbs(sc.t, FractionLimbs)
                 r == BigLowLimbs(sc.t, FractionLimbs)
                 c == BigCmp(r, HalfUnit)
                 up == c > 0 \/ (c = 0 /\ BigIsOdd(q))
             IN  Renorm(IF up THEN BigAdd(q, <<1>>) ELSE q, sc.e)

\* one halving step of a sum being rounded to 53 bits: q the kept bits,
\* g the last bit dropped, s whether any bit dropped before it was set
RECURSIVE RoundTo53(_, _, _, _)
RoundTo53(q, g, s, e) ==
    IF BigCmp(q, TwoTo53) >= 0
    THEN RoundTo53(BigDivSmall(q, 2), BigIsOdd(q), s \/ g, e - 1)
    ELSE LET up == g /\ (s \/ BigIsOdd(q))
         IN  Renorm(IF up THEN BigAdd(q, <<1>>) ELSE q, e)

\* a + b in double arithmetic (round to nearest, ties to even)
DoubleAdd(a, b) ==
    IF a = Zero THEN b
    ELSE IF b = Zero THEN a
    ELSE LET e == IF a.e > b.e THEN a.e ELSE b.e
             sum == BigAdd(BigTimesPow2(a.m, e - a.e), BigTimesPow2(b.m, e - b.e))
         IN  RoundTo53(sum, FALSE, FALSE, e)

\* x / 2 is exact
DoubleHalf(x) == IF x = Zero THEN Zero ELSE [m |-> x.m, e |-> x.e + 1]

\* a < b and a = b on doubles >= 0
DoubleLess(a, b) ==
    IF b = Zero THEN FALSE
    ELSE IF a = Zero THEN TRUE
    ELSE a.e > b.e \/ (a.e = b.e /\ BigCmp(a.m, b.m) < 0)

Pad(a, len) == a \o [i \in 1..(len - Len(a)) |-> 0]

\* Number.prototype.toFixed(20): the decimal nearest to the double's exact
\* value, the larger one on a tie
toFixed(x) ==
    IF x = Zero THEN <<0, 0, 0, 0, 0>>
    ELSE LET t == BigShiftLimbs(x.m, FractionLimbs)
             twice == BigDivPow2(t, x.e - 1)
             n == BigDivSmall(BigAdd(twice, <<1>>), 2)
         IN  Reverse(Pad(n, FractionLimbs + 1))

\* CRDTEngine.generatePosition
generatePosition(prev, next) ==
    LET prevPos == IF prev # NULL THEN parseFloat(prev) ELSE Zero
        nextPos == IF next # NULL THEN parseFloat(next) ELSE DoubleOne
        midpoint == DoubleHalf(DoubleAdd(prevPos, nextPos))
    IN  toFixed(midpoint)

(***************************************************************************)
(* The replicas.  Two browser windows edit one document; the Operation     *)
(* entity store of the backend is the shared log.                          *)
(***************************************************************************)
ClientIds == <<"client_a", "client_b">>
Clients == {ClientIds[i] : i \in 1..Len(ClientIds)}
A == ClientIds[1]
B == ClientIds[2]
\* both windows are signed in as the same user
UserEmail == [c \in Clients |-> "user@example.com"]
\* the key each window types in unscripted runs
Letter == [c \in Clients |-> IF c = A THEN "A" ELSE "B"]

MaxOps == 2
MaxFailures == 1
MaxInserts == 70

VARIABLES
    serverOps,                \* the backend's Operation records, in creation order
    operations,               \* per client: the records of its last applied fetch
    text,                     \* per client: the text shown in the textarea
    lamportClock,             \* per client: CRDTEngine.lamportClock
    lastSyncedOpCount,        \* per client: ref of the same name
    isApplyingRemoteChanges,  \* per client: ref of the same name
    isOnline,                 \* per client: navigator.onLine as seen by the editor
    queue,                    \* per client: useOperationQueue's queue
    replaying,                \* per client: what a running processQueue has still to send
    user,                     \* per client: the signed-in user, NULL until loaded
    appended,                 \* every operation object a handler has built
    allocated,                \* the last call of generatePosition: arguments, result
    failures,                 \* network errors so far
    scenario,                 \* the scripted run being played, "free" when none
    step                      \* scripted steps taken

vars == <<serverOps, operations, text, lamportClock, lastSyncedOpCount,
          isApplyingRemoteChanges, isOnline, queue, replaying, user, appended,
          allocated,
          failures, scenario, step>>

(***************************************************************************)
(* CRDTEngine                                                              *)
(***************************************************************************)
RankOf(c) == CHOOSE i \in 1..Len(ClientIds) : ClientIds[i] = c
\* a comparison of client ids that never orders two of them
localeCompareNone(a, b) == 0
localeCompare(a, b) == RankOf(a) - RankOf(b)

\* a tick that returns the counter as it is
tickSame(clock) == clock

\* CRDTEngine.tick: the clock after the increment, which is also returned
tick(clock) == clock + 1

\* a clock that takes nothing from a received timestamp
updateClockIgnored(clock, receivedTimestamp) == clock

\* CRDTEngine.updateClock
updateClock(clock, receivedTimestamp) ==
    (IF clock > receivedTimestamp THEN clock ELSE receivedTimestamp) + 1

\* the comparator of buildDocument and findPositionAtIndex; a and b carry
\* the parsed position posF beside the record op
compareOps(a, b) ==
    IF a.posF # b.posF THEN (IF DoubleLess(a.posF, b.posF) THEN -1 ELSE 1)
    ELSE IF a.op.lamport_timestamp # b.op.lamport_timestamp
         THEN a.op.lamport_timestamp - b.op.lamport_timestamp
    ELSE localeCompare(a.op.client_id, b.op.client_id)

RECURSIVE Parsed(_)
Parsed(ops) ==
    IF ops = <<>> THEN <<>>
    ELSE <<[op |-> Head(ops), posF |-> parseFloat(Head(ops).position)]>>
         \o Parsed(Tail(ops))

\* Array.prototype.sort is stable: x goes after every element it does not
\* precede
RECURSIVE InsertByCompare(_, _)
InsertByCompare(sorted, x) ==
    IF sorted = <<>> THEN <<x>>
    ELSE IF compareOps(x, Head(sorted)) < 0 THEN <<x>> \o sorted
    ELSE <<Head(sorted)>> \o InsertByCompare(Tail(sorted), x)

RECURSIVE SortByCompare(_, _)
SortByCompare(pending, sorted) ==
    IF pending = <<>> THEN sorted
    ELSE SortByCompare(Tail(pending), InsertByCompare(sorted, Head(pending)))

IsLiveInsert(op) == ~op.is_undone /\ op.operation_type = "insert"

\* the live inserts of a log as they arrived, the sort left out
activeOpsUnsorted(ops) == SelectSeq(ops, IsLiveInsert)

\* the live inserts of a log in document order
activeOps(ops) ==
    LET sorted == SortByCompare(Parsed(SelectSeq(ops, IsLiveInsert)), <<>>)
    IN  [i \in 1..Len(sorted) |-> sorted[i].op]

\* CRDTEngine.buildDocument
buildDocument(ops) ==
    LET sortedOps == activeOps(ops)
    IN  [i \in 1..Len(sortedOps) |-> sortedOps[i].character]

\* a lookup that takes the neighbour before the cursor one place too early
findPositionAtIndexShifted(ops, index) ==
    LET active == activeOps(ops)
    IN  IF index < 0 \/ index > Len(active) THEN NULL
        ELSE [prevPos |-> IF index > 1 THEN active[index - 1].position ELSE NULL,
              nextPos |-> IF index < Len(active)
                          THEN active[index + 1].position ELSE NULL,
              ops |-> active]

\* a lookup that moves an index outside the text to its nearest end
findPositionAtIndexClamped(ops, index) ==
    LET active == activeOps(ops)
        at == IF index < 0 THEN 0 ELSE IF index > Len(active) THEN Len(active) ELSE index
    IN  [prevPos |-> IF at > 0 THEN active[at].position ELSE NULL,
         nextPos |-> IF at < Len(active) THEN active[at + 1].position ELSE NULL,
         ops |-> active]

\* CRDTEngine.findPositionAtIndex; index counts from 0 as in the code
findPositionAtIndex(ops, index) ==
    LET active == activeOps(ops)
    IN  IF index < 0 \/ index > Len(active) THEN NULL
        ELSE [prevPos |-> IF index > 0 THEN active[index].position ELSE NULL,
              nextPos |-> IF index < Len(active)
                          THEN active[index + 1].position ELSE NULL,
              ops |-> active]

(***************************************************************************)
(* The backend: base44.entities.Operation                                  *)
(***************************************************************************)
\* Operation.create: the record is stored under a fresh id
Create(log, op) == Append(log, [op EXCEPT !.id = Len(log) + 1])

\* a delete that takes the record out of the log
RemoveRecord(log, id) == SelectSeq(log, LAMBDA r : r.id # id)

\* an update that wrote the opposite of the record's flag
FlipUndone(log, id) ==
    [i \in 1..Len(log) |->
        IF log[i].id = id THEN [log[i] EXCEPT !.is_undone = ~log[i].is_undone]
        ELSE log[i]]

\* Operation.update(id, {is_undone: true})
MarkUndone(log, id) ==
    [i \in 1..Len(log) |->
        IF log[i].id = id THEN [log[i] EXCEPT !.is_undone = TRUE] ELSE log[i]]

RECURSIVE InsertByTimestamp(_, _)
InsertByTimestamp(sorted, x) ==
    IF sorted = <<>> THEN <<x>>
    ELSE IF x.lamport_timestamp > Head(sorted).lamport_timestamp
         THEN <<x>> \o sorted
    ELSE <<Head(sorted)>> \o InsertByTimestamp(Tail(sorted), x)

RECURSIVE SortByTimestampDesc(_, _)
SortByTimestampDesc(pending, sorted) ==
    IF pending = <<>> THEN sorted
    ELSE SortByTimestampDesc(Tail(pending),
                             InsertByTimestamp(sorted, Head(pending)))

\* the backend does not say how it orders records of equal timestamp
TieOrders == {"oldest first", "newest first"}

\* Operation.filter({document_id}, "-lamport_timestamp")
Filter(log, tie) ==
    SortByTimestampDesc(IF tie = "oldest first" THEN log ELSE Reverse(log), <<>>)

(***************************************************************************)
(* CollaborativeEditor and useOperationQueue                                *)
(***************************************************************************)
InsertAt(s, i, ch) == SubSeq(s, 1, i) \o <<ch>> \o SubSeq(s, i + 1, Len(s))
RemoveAt(s, i) == SubSeq(s, 1, i) \o SubSeq(s, i + 2, Len(s))

\* the operation objects handleTextChange builds; the backend sets id
InsertOperation(c, position, char, timestamp) ==
    [id |-> 0, client_id |-> c, user_email |-> user[c].email,
     operation_type |-> "insert", position |-> position, character |-> char,
     lamport_timestamp |-> timestamp, is_undone |-> FALSE,
     undoes_operation_id |-> 0]

DeleteOperation(c, charToDelete, timestamp) ==
    [id |-> 0, client_id |-> c, user_email |-> user[c].email,
     operation_type |-> "delete", position |-> charToDelete.position,
     character |-> "", lamport_timestamp |-> timestamp, is_undone |-> FALSE,
     undoes_operation_id |-> charToDelete.id]

RECURSIVE UpdateClockAll(_, _)
UpdateClockAll(clock, ops) ==
    IF ops = <<>> THEN clock
    ELSE UpdateClockAll(updateClock(clock, Head(ops).lamport_timestamp), Tail(ops))

\* what a handler leaves of the client's state when no fetch result is
\* applied: the clock it ticked and the text it set
KeepLocal(c, clock, localText) ==
    /\ lamportClock' = [lamportClock EXCEPT ![c] = clock]
    /\ text' = [text EXCEPT ![c] = localText]
    /\ UNCHANGED <<operations, lastSyncedOpCount, isApplyingRemoteChanges>>

\* fetchOperations once the backend has answered with the records fetched
fetchOperations(c, fetched, clock, localText) ==
    \E ops \in {fetched} :
        IF Len(ops) # lastSyncedOpCount[c]
        THEN /\ isApplyingRemoteChanges' = [isApplyingRemoteChanges EXCEPT ![c] = TRUE]
             /\ lamportClock' = [lamportClock EXCEPT ![c] = UpdateClockAll(clock, ops)]
             /\ operations' = [operations EXCEPT ![c] = ops]
             /\ text' = [text EXCEPT ![c] = buildDocument(ops)]
             /\ lastSyncedOpCount' = [lastSyncedOpCount EXCEPT ![c] = Len(ops)]
        ELSE KeepLocal(c, clock, localText)

Outcomes == {"ok", "create fails", "update fails", "fetch fails"}
Failed(net) == IF net = "ok" THEN 0 ELSE 1

\* useOperationQueue.enqueue
enqueue(c, operation) == queue' = [queue EXCEPT ![c] = Append(queue[c], operation)]

\* handleTextChange returns before it has looked at the change event
Ignored(c) == isApplyingRemoteChanges[c] \/ user[c] = NULL

\* handleTextChange when the new text is longer: the change event put the
\* characters str into the text at index at and left the cursor behind them.
\* The handler reads one character, the one before the cursor.
handleTextChangeInsert(c, at, str, net, tie) ==
    /\ ~Ignored(c)
    /\ at \in 0..Len(text[c])
    /\ Len(str) > 0
    /\ net \in {"ok", "create fails", "fetch fails"}
    /\ \E cursor \in {at + Len(str)},
          newText \in {SubSeq(text[c], 1, at) \o str \o SubSeq(text[c], at + 1, Len(text[c]))} :
       \E insertPos \in {cursor - 1} :
       \E char \in {newText[insertPos + 1]},
          posData \in {findPositionAtIndex(operations[c], insertPos)} :
        /\ posData # NULL
        /\ \E position \in {generatePosition(posData.prevPos, posData.nextPos)},
              timestamp \in {tick(lamportClock[c])} :
            \E operation \in {InsertOperation(c, position, char, timestamp)} :
                /\ appended' = appended \cup {operation}
                /\ allocated' = [prev |-> posData.prevPos,
                                 next |-> posData.nextPos, position |-> position]
                /\ IF isOnline[c]
                   THEN /\ failures' = failures + Failed(net)
                        /\ IF net = "create fails"
                           THEN /\ enqueue(c, operation)
                                /\ KeepLocal(c, timestamp, newText)
                                /\ UNCHANGED serverOps
                           ELSE /\ serverOps' = Create(serverOps, operation)
                                /\ UNCHANGED queue
                                /\ IF net = "ok"
                                   THEN fetchOperations(c, Filter(serverOps', tie),
                                                        timestamp, newText)
                                   ELSE KeepLocal(c, timestamp, newText)
                   ELSE /\ net = "ok"
                        /\ enqueue(c, operation)
                        /\ KeepLocal(c, timestamp, newText)
                        /\ UNCHANGED <<serverOps, failures>>
    /\ UNCHANGED <<isOnline, replaying, user, scenario>>

\* handleTextChange, one character typed at text index insertPos
handleInsert(c, insertPos, char, net, tie) ==
    handleTextChangeInsert(c, insertPos, <<char>>, net, tie)

\* handleTextChange when the new text is shorter: the change event took n
\* characters out of the text from index at on and left the cursor at at.
\* The handler looks up one character, the one at the cursor.
handleTextChangeDelete(c, at, n, net, tie) ==
    /\ ~Ignored(c)
    /\ n > 0
    /\ at \in 0..(Len(text[c]) - n)
    /\ \E deletePos \in {at} :
       \E posData \in {findPositionAtIndex(operations[c], deletePos)} :
        /\ posData # NULL
        /\ deletePos < Len(posData.ops)
        /\ \E charToDelete \in {posData.ops[deletePos + 1]},
              timestamp \in {tick(lamportClock[c])},
              newText \in {SubSeq(text[c], 1, at) \o SubSeq(text[c], at + n + 1, Len(text[c]))} :
            \E operation \in {DeleteOperation(c, charToDelete, timestamp)},
               marked \in {MarkUndone(serverOps, charToDelete.id)} :
                /\ appended' = appended \cup {operation}
                /\ IF isOnline[c]
                   THEN /\ failures' = failures + Failed(net)
                        /\ UNCHANGED queue
                        /\ serverOps' = CASE net = "update fails" -> serverOps
                                          [] net = "create fails" -> marked
                                          [] OTHER -> Create(marked, operation)
                        /\ IF net = "ok"
                           THEN fetchOperations(c, Filter(serverOps', tie),
                                                timestamp, newText)
                           ELSE KeepLocal(c, timestamp, newText)
                   ELSE /\ net = "ok"
                        /\ enqueue(c, operation)
                        /\ KeepLocal(c, timestamp, newText)
                        /\ UNCHANGED <<serverOps, failures>>
    /\ UNCHANGED <<isOnline, replaying, user, allocated, scenario>>

\* handleTextChange, the character at text index deletePos removed
handleDelete(c, deletePos, net, tie) ==
    handleTextChangeDelete(c, deletePos, 1, net, tie)

\* the candidates were the user's records of every window taken
myOpsOfUser(c) ==
    LET IsMine(op) == op.user_email = user[c].email /\ ~op.is_undone
    IN  SortByTimestampDesc(SelectSeq(operations[c], IsMine), <<>>)

\* the candidates were every record not undone, whoever wrote it
myOpsAnyAuthor(c) ==
    LET IsLive(op) == ~op.is_undone
    IN  SortByTimestampDesc(SelectSeq(operations[c], IsLive), <<>>)

\* handleUndo's candidates: this client's records that are not undone,
\* latest first
myOps(c) ==
    LET IsMine(op) == /\ op.user_email = user[c].email
                      /\ ~op.is_undone
                      /\ op.client_id = c
    IN  SortByTimestampDesc(SelectSeq(operations[c], IsMine), <<>>)

\* handleUndo
handleUndo(c, net, tie) ==
    /\ user[c] # NULL
    /\ myOps(c) # <<>>
    /\ net \in {"ok", "update fails", "fetch fails"}
    /\ \E lastOp \in {Head(myOps(c))} :
           IF isOnline[c]
           THEN /\ failures' = failures + Failed(net)
                /\ serverOps' = IF net = "update fails" THEN serverOps
                                ELSE MarkUndone(serverOps, lastOp.id)
                /\ IF net = "ok"
                   THEN fetchOperations(c, Filter(serverOps', tie),
                                        lamportClock[c], text[c])
                   ELSE KeepLocal(c, lamportClock[c], text[c])
           ELSE /\ net = "update fails"
                /\ KeepLocal(c, lamportClock[c], text[c])
                /\ UNCHANGED <<serverOps, failures>>
    /\ UNCHANGED <<isOnline, queue, replaying, user, appended, allocated, scenario>>

\* the two-second poll; offline the request fails and nothing changes
Poll(c, tie) ==
    /\ isOnline[c]
    /\ fetchOperations(c, Filter(serverOps, tie), lamportClock[c], text[c])
    /\ UNCHANGED <<serverOps, isOnline, queue, replaying, user, appended, allocated,
                   failures, scenario, step>>

\* the setTimeout(0) callback of fetchOperations
RestoreCursor(c) ==
    /\ isApplyingRemoteChanges[c]
    /\ isApplyingRemoteChanges' = [isApplyingRemoteChanges EXCEPT ![c] = FALSE]
    /\ UNCHANGED <<serverOps, operations, text, lamportClock, lastSyncedOpCount,
                   isOnline, queue, replaying, user, appended, allocated, failures,
                   scenario, step>>

\* a replay that hands over the newest buffered operation first
processQueueNewestFirst(c, net) ==
    /\ net \in {"ok", "create fails"}
    /\ replaying[c] = <<>> => isOnline[c] /\ Len(queue[c]) > 0
    /\ LET todo == IF replaying[c] = <<>> THEN queue[c] ELSE replaying[c]
       IN  IF net = "create fails"
           THEN /\ failures' = failures + 1
                /\ replaying' = [replaying EXCEPT ![c] = <<>>]
                /\ UNCHANGED <<serverOps, queue>>
           ELSE /\ serverOps' = Create(serverOps, todo[Len(todo)])
                /\ replaying' = [replaying EXCEPT ![c] = SubSeq(todo, 1, Len(todo) - 1)]
                /\ queue' = IF Len(todo) = 1 THEN [queue EXCEPT ![c] = <<>>] ELSE queue
                /\ UNCHANGED failures
    /\ UNCHANGED <<operations, text, lamportClock, lastSyncedOpCount,
                   isApplyingRemoteChanges, isOnline, user, appended, allocated,
                   scenario, step>>

\* the hook's isSyncing was false in every render
isSyncingNever(c) == FALSE

\* useOperationQueue's isSyncing: set when a call of processQueue starts its
\* loop and reset in its finally, so true while a loop has creates to await
isSyncing(c) == replaying[c] # <<>>

\* a call of processQueue by the replay effect that gets past its guard
Invoked(c) == ~(~isOnline[c] \/ Len(queue[c]) = 0 \/ isSyncing(c))

\* the replay effect and one turn of processQueue's loop. Each create is
\* awaited, so the other windows act between one create and the next. The
\* loop runs over the queue it captured when it started, clears the queue
\* after the last create, and leaves the queue as it was when a create throws.
processQueue(c, net) ==
    /\ net \in {"ok", "create fails"}
    /\ \E todo \in (IF Invoked(c) THEN {queue[c]} ELSE {})
                    \cup (IF replaying[c] # <<>> THEN {replaying[c]} ELSE {}) :
           IF net = "create fails"
           THEN /\ failures' = failures + 1
                /\ replaying' = [replaying EXCEPT ![c] = <<>>]
                /\ UNCHANGED <<serverOps, queue>>
           ELSE /\ serverOps' = Create(serverOps, Head(todo))
                /\ replaying' = [replaying EXCEPT ![c] = Tail(todo)]
                /\ queue' = IF Tail(todo) = <<>> THEN [queue EXCEPT ![c] = <<>>] ELSE queue
                /\ UNCHANGED failures
    /\ UNCHANGED <<operations, text, lamportClock, lastSyncedOpCount,
                   isApplyingRemoteChanges, isOnline, user, appended, allocated,
                   scenario, step>>

\* the window's online and offline events
SetOnline(c, online) ==
    /\ isOnline[c] # online
    /\ isOnline' = [isOnline EXCEPT ![c] = online]
    /\ UNCHANGED <<serverOps, operations, text, lamportClock, lastSyncedOpCount,
                   isApplyingRemoteChanges, queue, replaying, user, appended, allocated,
                   failures, scenario>>

\* base44.auth.me() answers
LoadUser(c) ==
    /\ user[c] = NULL
    /\ user' = [user EXCEPT ![c] = [email |-> UserEmail[c]]]
    /\ UNCHANGED <<serverOps, operations, text, lamportClock, lastSyncedOpCount,
                   isApplyingRemoteChanges, isOnline, queue, replaying, appended, allocated,
                   failures, scenario, step>>

(***************************************************************************)
(* Unscripted runs: any window does anything, within the bounds.           *)
(***************************************************************************)
NoAllocation == [prev |-> NULL, next |-> NULL, position |-> NULL]

InitWith(sc) ==
    /\ serverOps = <<>>
    /\ operations = [c \in Clients |-> <<>>]
    /\ text = [c \in Clients |-> <<>>]
    /\ lamportClock = [c \in Clients |-> 0]
    /\ lastSyncedOpCount = [c \in Clients |-> 0]
    /\ isApplyingRemoteChanges = [c \in Clients |-> FALSE]
    /\ isOnline = [c \in Clients |-> TRUE]
    /\ queue = [c \in Clients |-> <<>>]
    /\ replaying = [c \in Clients |-> <<>>]
    /\ user = [c \in Clients |-> NULL]
    /\ appended = {}
    /\ allocated = NoAllocation
    /\ failures = 0
    /\ scenario = sc
    /\ step = 0

Init == InitWith("free")

MayFail(net) == failures + Failed(net) <= MaxFailures

TypeChar(c) ==
    \E i \in 0..Len(text[c]), net \in Outcomes, tie \in TieOrders :
        /\ Cardinality(appended) < MaxOps
        /\ MayFail(net)
        /\ handleInsert(c, i, Letter[c], net, tie)
        /\ UNCHANGED step

DeleteChar(c) ==
    \E i \in 0..(Len(text[c]) - 1), net \in Outcomes, tie \in TieOrders :
        /\ Cardinality(appended) < MaxOps
        /\ MayFail(net)
        /\ handleDelete(c, i, net, tie)
        /\ UNCHANGED step

ClickUndo(c) ==
    \E net \in Outcomes, tie \in TieOrders :
        /\ MayFail(net)
        /\ handleUndo(c, net, tie)
        /\ UNCHANGED step

Fetch(c) == \E tie \in TieOrders : Poll(c, tie)

ReplayQueue(c) ==
    \E net \in {"ok", "create fails"} : MayFail(net) /\ processQueue(c, net)

GoOffline(c) == SetOnline(c, FALSE) /\ UNCHANGED step
GoOnline(c) == SetOnline(c, TRUE) /\ UNCHANGED step

Next ==
    \E c \in Clients :
        \/ LoadUser(c)
        \/ TypeChar(c)
        \/ DeleteChar(c)
        \/ ClickUndo(c)
        \/ Fetch(c)
        \/ RestoreCursor(c)
        \/ ReplayQueue(c)
        \/ GoOffline(c)
        \/ GoOnline(c)

Spec == Init /\ [][Next]_vars

(***************************************************************************)
(* Scripted runs: the README's scenarios and the tests' steps, played as   *)
(* keystrokes against the same handlers.  Every scripted step waits until   *)
(* the acting window has applied a fetch of all records the backend holds,  *)
(* as the pauses between the steps of the tests let it.                     *)
(***************************************************************************)
Key(c, at, ch) == [act |-> "insert", c |-> c, at |-> at, ch |-> ch]
Act(act, c) == [act |-> act, c |-> c, at |-> 0, ch |-> ""]
AtEnd == 0 - 1

\* str typed at the text indices start, start + 1, ...
Typed(c, start, str) == [k \in 1..Len(str) |-> Key(c, start + k - 1, str[k])]

\* Test 1: A inserts "AAA\n", B inserts "BBB\n", A goes offline, inserts
\* "XXX\n" and reconnects, every insert at index 0
RobotScript ==
    Typed(A, 0, <<"A", "A", "A", "\n">>) \o Typed(B, 0, <<"B", "B", "B", "\n">>)
    \o <<Act("offline", A)>> \o Typed(A, 0, <<"X", "X", "X", "\n">>)
    \o <<Act("online", A)>>

\* Test 2: A types "AAA", B types "BBB" behind it, A clicks Undo
UndoScript ==
    Typed(A, 0, <<"A", "A", "A">>) \o Typed(B, 3, <<"B", "B", "B">>)
    \o <<Act("undo", A)>>

\* Test 1 with one character per insert
ThreeInsertsScript ==
    <<Key(A, 0, "A"), Key(B, 0, "B"), Act("offline", A), Key(A, 0, "X"),
      Act("online", A)>>

\* Test 3 with one character per insert and a second offline period: B
\* types, A goes offline, types two characters and reconnects, goes offline
\* again, types a third and reconnects for good
ReconnectScript ==
    <<Key(B, 0, "B"), Act("offline", A), Key(A, 0, "X"), Key(A, 0, "X"),
      Act("online", A), Act("offline", A), Key(A, 0, "Y"), Act("online", A)>>

\* a change event that puts the characters str into the text at index at
\* (a paste), and one that takes the characters str out of it (a selection
\* deleted)
Paste(c, at, str) == [act |-> "paste", c |-> c, at |-> at, ch |-> str]
Cut(c, at, str) == [act |-> "cut", c |-> c, at |-> at, ch |-> str]

\* B types "B"; A pastes "XY" in front of it and then deletes the two
\* characters at the start of its text as one selection
PasteScript ==
    <<Key(B, 0, "B"), Paste(A, 0, <<"X", "Y">>), Cut(A, 0, <<"B", "Y">>)>>

\* B types "B"; A goes offline, types "X" in front of it and deletes the "X"
StaleDeleteScript ==
    <<Key(B, 0, "B"), Act("offline", A), Key(A, 0, "X"), Cut(A, 0, <<"X">>),
      Act("online", A)>>

\* one window typing MaxInserts characters at the same place of the text:
\* its start, its end, or behind its first character
FrontScript == [k \in 1..MaxInserts |-> Key(A, 0, "A")]
EndScript == [k \in 1..MaxInserts |-> Key(A, AtEnd, "A")]
MiddleScript == [k \in 1..MaxInserts |-> Key(A, IF k = 1 THEN 0 ELSE 1, "A")]

Script ==
    CASE scenario = "robots" -> RobotScript
      [] scenario = "undo" -> UndoScript
      [] scenario = "three inserts" -> ThreeInsertsScript
      [] scenario = "reconnect" -> ReconnectScript
      [] scenario = "paste" -> PasteScript
      [] scenario = "stale delete" -> StaleDeleteScript
      [] scenario = "front" -> FrontScript
      [] scenario = "end" -> EndScript
      [] scenario = "middle" -> MiddleScript
      [] OTHER -> <<>>

Entry == Script[step + 1]

\* the window's last applied fetch held every record of the backend, and
\* its textarea is not in the middle of a refresh
Observed(c) == lastSyncedOpCount[c] = Len(serverOps) /\ ~isApplyingRemoteChanges[c]

Ready(act) == step < Len(Script) /\ Entry.act = act /\ Observed(Entry.c)

ScriptedKey ==
    /\ Ready("insert")
    /\ handleInsert(Entry.c, IF Entry.at = AtEnd THEN Len(text[Entry.c]) ELSE Entry.at,
                    Entry.ch, "ok", "oldest first")
    /\ step' = step + 1

ScriptedUndo ==
    /\ Ready("undo")
    /\ handleUndo(Entry.c, "ok", "oldest first")
    /\ step' = step + 1

ScriptedOffline ==
    /\ Ready("offline")
    /\ SetOnline(Entry.c, FALSE)
    /\ step' = step + 1

ScriptedOnline ==
    /\ Ready("online")
    /\ SetOnline(Entry.c, TRUE)
    /\ step' = step + 1

\* a turn of the replay in which the create succeeds
Replay(c) == processQueue(c, "ok")

ScenarioInit == \E sc \in {"robots", "undo", "three inserts"} : InitWith(sc)

ScenarioNext ==
    \/ ScriptedKey
    \/ ScriptedUndo
    \/ ScriptedOffline
    \/ ScriptedOnline
    \/ \E c \in Clients :
        \/ LoadUser(c)
        \/ Fetch(c)
        \/ RestoreCursor(c)
        \/ Replay(c)

SpecScenarios == ScenarioInit /\ [][ScenarioNext]_vars

\* the scenarios with an offline period; the poll timer and the textarea
\* timeout fire, the replay effect runs and its creates succeed
ReconnectInit == \E sc \in {"robots", "three inserts", "reconnect"} : InitWith(sc)

ReconnectNext ==
    \/ ScriptedKey
    \/ ScriptedOffline
    \/ ScriptedOnline
    \/ \E c \in Clients :
        \/ LoadUser(c)
        \/ Fetch(c)
        \/ RestoreCursor(c)
        \/ Replay(c)

\* a poll has something to apply: ENABLED <<Fetch(c)>>_vars
FetchDue(c) == isOnline[c] /\ Len(serverOps) # lastSyncedOpCount[c]

\* weak fairness of the poll (written out with its enabling condition), of the
\* textarea timeout and of the replay
Fairness ==
    \A c \in Clients :
        /\ []<>(~FetchDue(c)) \/ []<><<Fetch(c)>>_vars
        /\ WF_vars(RestoreCursor(c))
        /\ WF_vars(Replay(c))

SpecReconnect == ReconnectInit /\ [][ReconnectNext]_vars /\ Fairness

ScriptedPaste ==
    /\ Ready("paste")
    /\ handleTextChangeInsert(Entry.c, Entry.at, Entry.ch, "ok", "oldest first")
    /\ step' = step + 1

\* the selection deleted is what the window shows at the index
ScriptedCut ==
    /\ Ready("cut")
    /\ SubSeq(text[Entry.c], Entry.at + 1, Entry.at + Len(Entry.ch)) = Entry.ch
    /\ handleTextChangeDelete(Entry.c, Entry.at, Len(Entry.ch), "ok", "oldest first")
    /\ step' = step + 1

\* the scenarios with change events of several characters and with deletes
EditsInit == \E sc \in {"paste", "stale delete"} : InitWith(sc)

EditsNext ==
    \/ ScriptedKey
    \/ ScriptedPaste
    \/ ScriptedCut
    \/ ScriptedOffline
    \/ ScriptedOnline
    \/ \E c \in Clients :
        \/ LoadUser(c)
        \/ Fetch(c)
        \/ RestoreCursor(c)
        \/ Replay(c)

SpecEdits == EditsInit /\ [][EditsNext]_vars

DensityInit == \E sc \in {"front", "end", "middle"} : InitWith(sc)

DensityNext ==
    \/ ScriptedKey
    \/ LoadUser(A)
    \/ RestoreCursor(A)

SpecDensity == DensityInit /\ [][DensityNext]_vars

\* the scripted run is over and every window shows the whole log
Settled ==
    /\ step = Len(Script)
    /\ \A c \in Clients :
        Observed(c) /\ queue[c] = <<>> /\ replaying[c] = <<>> /\ isOnline[c]

(***************************************************************************)
(* Properties                                                              *)
(***************************************************************************)
Range(s) == {s[i] : i \in 1..Len(s)}

\* two logs hold the same records, whatever their order
SameRecords(s, t) == Len(s) = Len(t) /\ Range(s) = Range(t)

\* a stored record without what the backend adds or changes
Core(r) == [r EXCEPT !.id = 0, !.is_undone = FALSE]

Inserts(ops) == {op \in ops : op.operation_type = "insert"}

\* the operations a log has merged and those of them it holds tombstoned,
\* however often each was delivered
Merged(log) ==
    [ops |-> {Core(r) : r \in Range(log)},
     undone |-> {Core(r) : r \in {q \in Range(log) : q.is_undone}}]

\* C1: any two replicas that have merged the same set of operations, in
\* whatever order and however often each operation was delivered, project
\* the same text.
Convergence ==
    \A a, b \in Clients :
        Merged(operations[a]) = Merged(operations[b])
            => buildDocument(operations[a]) = buildDocument(operations[b])

\* two replicas hold the same two or more characters in logs of different
\* order and project the same text
ConvergenceWitness ==
    \E a, b \in Clients :
        /\ SameRecords(operations[a], operations[b])
        /\ operations[a] # operations[b]
        /\ Len(buildDocument(operations[a])) >= 2
        /\ buildDocument(operations[a]) = buildDocument(operations[b])

\* every replica has sent what it queued and shows the projection of the
\* backend's current records
Synchronised ==
    \A c \in Clients :
        /\ queue[c] = <<>>
        /\ replaying[c] = <<>>
        /\ SameRecords(operations[c], serverOps)
        /\ text[c] = buildDocument(operations[c])

Tombstoned(op) == \E i \in 1..Len(serverOps) :
                      Core(serverOps[i]) = op /\ serverOps[i].is_undone

\* the places of the text a replica projects that come from operation op
Contributions(c, op) ==
    {i \in 1..Len(activeOps(operations[c])) : Core(activeOps(operations[c])[i]) = op}

\* C2: once all replicas have synchronised, every insert that was created and
\* never tombstoned contributes its character to the text exactly once.
NoLostUpdates ==
    Synchronised =>
        \A op \in Inserts(appended), c \in Clients :
            ~Tombstoned(op) => Cardinality(Contributions(c, op)) = 1

MaxPermuted == 4

Permuted(s) == {[i \in 1..Len(s) |-> s[f[i]]] : f \in Permutations(1..Len(s))}
Flags(ops) == {op.id : op \in {r \in Range(ops) : r.is_undone}}

IdempotentMerge ==
    [][\A i \in 1..Len(serverOps') :
          i > Len(serverOps) =>
              \A j \in 1..Len(serverOps) : Core(serverOps[j]) # Core(serverOps'[i])]_vars

\* C5: after the robot scenario both replicas show "XXX\nBBB\nAAA\n".
RobotsResult ==
    (scenario = "robots" /\ Settled) =>
        \A c \in Clients :
            text[c] = <<"X", "X", "X", "\n", "B", "B", "B", "\n", "A", "A", "A", "\n">>

\* the live inserts of a log that c did not create, in document order
OthersText(log, c) ==
    LET NotBy(op) == op.client_id # c IN SelectSeq(activeOps(log), NotBy)

UndoResult ==
    (scenario = "undo" /\ Settled) =>
        \A c \in Clients : text[c] = <<"B", "B", "B">>

\* C8: generatePosition returns a key strictly between its arguments (the
\* bounds 0 and 1 standing in for an absent one) whenever the first is below
\* the second.
StrictlyBetween ==
    allocated.position # NULL =>
        LET lo == IF allocated.prev # NULL THEN parseFloat(allocated.prev) ELSE Zero
            hi == IF allocated.next # NULL THEN parseFloat(allocated.next) ELSE DoubleOne
            key == parseFloat(allocated.position)
        IN  DoubleLess(lo, hi) => DoubleLess(lo, key) /\ DoubleLess(key, hi)

\* C9: the characters typed at one place of the text have pairwise distinct
\* positions, each below the next in document order.
PositionsDense ==
    LET active == activeOps(serverOps)
    IN  \A i \in 1..(Len(active) - 1) :
            DoubleLess(parseFloat(active[i].position), parseFloat(active[i + 1].position))

\* C10: two distinct inserts, of one client or of two, never have the same
\* position.
PositionsUnique ==
    \A p, q \in Inserts(appended) : p # q => p.position # q.position

\* the sort key of the projection: position as a number, then timestamp, then
\* client id; p and q carry the parsed position posF beside the record op
KeyBefore(p, q) ==
    \/ DoubleLess(p.posF, q.posF)
    \/ /\ p.posF = q.posF
       /\ \/ p.op.lamport_timestamp < q.op.lamport_timestamp
          \/ /\ p.op.lamport_timestamp = q.op.lamport_timestamp
             /\ RankOf(p.op.client_id) < RankOf(q.op.client_id)

\* the text the key order prescribes: the live insert with k - 1 live inserts
\* before it gives character k (records of one key keep their order in the log)
ProjectedOf(keyed) ==
    LET live == {i \in 1..Len(keyed) :
                    keyed[i].op.operation_type = "insert" /\ ~keyed[i].op.is_undone}
        rank(i) == 1 + Cardinality({j \in live :
                        \/ KeyBefore(keyed[j], keyed[i])
                        \/ ~KeyBefore(keyed[i], keyed[j]) /\ j < i})
    IN  [k \in 1..Cardinality(live) |->
            keyed[CHOOSE i \in live : rank(i) = k].op.character]

\* txt is the text the key order prescribes for the log ops
ProjectsTo(ops, txt) == \E keyed \in {Parsed(ops)} : txt = ProjectedOf(keyed)

\* C11: the projected text of a replica's log is the characters of its live
\* inserts in ascending (position, timestamp, client id) order; delete records
\* and tombstoned inserts contribute nothing.
ProjectionSorted ==
    \A c \in Clients : ProjectsTo(operations[c], buildDocument(operations[c]))

\* a replica holds B's insert ahead of A's in its log, both at one position and
\* one timestamp, and projects them in client id order
ProjectionSortedWitness ==
    \E c \in Clients :
        /\ Len(operations[c]) = 2
        /\ operations[c][1].client_id = B /\ operations[c][2].client_id = A
        /\ IsLiveInsert(operations[c][1]) /\ IsLiveInsert(operations[c][2])
        /\ operations[c][1].position = operations[c][2].position
        /\ operations[c][1].lamport_timestamp = operations[c][2].lamport_timestamp
        /\ buildDocument(operations[c]) = <<"A", "B">>


\* the operations client c has seen: those of its log and those it created
Seen(c) == Range(operations[c]) \cup {op \in appended : op.client_id = c}

\* C12: an operation carries a timestamp above that of every operation its
\* author had seen, through a fetch or by creating it, when it was created.
Causality ==
    [][\A op \in appended' \ appended :
          \A seen \in Seen(op.client_id) :
              seen.lamport_timestamp < op.lamport_timestamp]_vars

\* a client has created an operation after fetching the other client's
CausalityWitness ==
    \E a, b \in appended :
        /\ a.client_id # b.client_id
        /\ Cardinality(appended) = 2
        /\ \E i \in 1..Len(operations[b.client_id]) :
              Core(operations[b.client_id][i]) = a
        /\ a.lamport_timestamp < b.lamport_timestamp


\* C13: while a client is offline every insert and every delete at an index
\* of its displayed text is accepted by handleTextChange.
OfflineEditsAccepted ==
    \A c \in Clients :
        (~isOnline[c] /\ user[c] # NULL /\ ~isApplyingRemoteChanges[c]) =>
            /\ \A insertPos \in 0..Len(text[c]) :
                  findPositionAtIndex(operations[c], insertPos) # NULL
            /\ \A deletePos \in 0..(Len(text[c]) - 1) :
                  \E posData \in {findPositionAtIndex(operations[c], deletePos)} :
                      posData # NULL /\ deletePos < Len(posData.ops)


\* every queue is empty, every operation created is in the log and every
\* window shows the text of the log
SyncedAfterReconnect ==
    /\ \A c \in Clients : isOnline[c] /\ queue[c] = <<>> /\ replaying[c] = <<>>
    /\ \A op \in appended : \E i \in 1..Len(serverOps) : Core(serverOps[i]) = op
    /\ \A c \in Clients : text[c] = buildDocument(serverOps)

\* C14: once a client that edited offline has reconnected for good and its
\* sends succeed, its queue empties, its offline operations are in the log and
\* both windows show the same text with the offline edits.
EventualSync ==
    <>[](step = Len(Script) /\ \A c \in Clients : isOnline[c])
        => <>[]SyncedAfterReconnect

\* A's second replay turn has emptied the queue that held the "Y" typed in the
\* second offline period
EventualSyncWitness ==
    /\ scenario = "reconnect" /\ step = Len(Script)
    /\ queue[A] = <<>> /\ replaying[A] = <<>> /\ isOnline[A]
    /\ \E op \in appended :
        /\ op.character = "Y"
        /\ \A i \in 1..Len(serverOps) : Core(serverOps[i]) # op


\* op has a record in the log
Delivered(log, op) == \E k \in 1..Len(log) : Core(log[k]) = op

\* C15: a replay hands the buffered operations to the backend in the order
\* they were enqueued: when a buffered operation is created in the log, every
\* operation enqueued before it has been created already.
ReplayOrder ==
    [][\A c \in Clients : \A j \in 1..Len(queue[c]) :
          (/\ Len(serverOps') = Len(serverOps) + 1
           /\ Core(serverOps'[Len(serverOps')]) = queue[c][j])
          => \A i \in 1..(j - 1) : Delivered(serverOps, queue[c][i])]_vars

\* a replay of two buffered operations has delivered the first and not yet
\* the second
ReplayOrderWitness ==
    \E c \in Clients :
        /\ Len(queue[c]) = 2 /\ replaying[c] = Tail(queue[c])
        /\ Delivered(serverOps, queue[c][1])
        /\ ~Delivered(serverOps, queue[c][2])


\* C16: over all replay attempts every buffered operation is sent to the
\* backend exactly once: no operation has two records in the log, and once
\* the queues are empty every insert created has one.
SentExactlyOnce ==
    /\ \A op \in appended :
          Cardinality({k \in 1..Len(serverOps) : Core(serverOps[k]) = op}) <= 1
    /\ (\A c \in Clients : queue[c] = <<>> /\ replaying[c] = <<>>) =>
          \A op \in Inserts(appended) : Delivered(serverOps, op)


\* C17: a client's own operations reach the log in the order it created
\* them: the first record of a later operation never comes ahead of the
\* first record of an earlier one, and a later operation is not in the log
\* without the earlier one.
FifoPerOrigin ==
    \A p, q \in appended :
        (/\ p.client_id = q.client_id
         /\ p.lamport_timestamp < q.lamport_timestamp
         /\ Delivered(serverOps, q))
        => \E i \in 1..Len(serverOps) :
              /\ Core(serverOps[i]) = p
              /\ \A k \in 1..i : Core(serverOps[k]) # q


\* C18: no edit, delete, undo, merge or sync removes or rewrites a record of
\* the log: a step keeps every record in its place, at most setting its
\* tombstone flag, and a step that adds a delete record sets the flag of no
\* record but the insert it targets.
AppendOnly ==
    [][/\ Len(serverOps') >= Len(serverOps)
       /\ \A i \in 1..Len(serverOps) :
            \/ serverOps'[i] = serverOps[i]
            \/ /\ serverOps'[i] = [serverOps[i] EXCEPT !.is_undone = TRUE]
               /\ \A d \in {serverOps'[k] : k \in (Len(serverOps) + 1)..Len(serverOps')} :
                    d.operation_type = "delete" =>
                        /\ d.undoes_operation_id = serverOps[i].id
                        /\ serverOps[i].operation_type = "insert"]_vars

\* the log holds a tombstoned insert next to the delete record that targets it
AppendOnlyWitness ==
    \E i, j \in 1..Len(serverOps) :
        /\ serverOps[i].operation_type = "insert" /\ serverOps[i].is_undone
        /\ serverOps[j].operation_type = "delete"
        /\ serverOps[j].undoes_operation_id = serverOps[i].id
        /\ buildDocument(serverOps) = <<>>


\* C19: once a delete operation is in a log, the insert it refers to is
\* tombstoned there and its character is not in the text projected from it.
DeleteTombstones ==
    \A j \in 1..Len(serverOps) :
        serverOps[j].operation_type = "delete" =>
            \A i \in 1..Len(serverOps) :
                serverOps[i].id = serverOps[j].undoes_operation_id =>
                    /\ serverOps[i].is_undone
                    /\ \A k \in 1..Len(activeOps(serverOps)) :
                          activeOps(serverOps)[k].id # serverOps[i].id


\* C20: an operation whose send failed is retained: every operation created,
\* insert or delete, is in the log or in its author's queue.
EditRetained ==
    \A op \in appended :
        \/ Delivered(serverOps, op)
        \/ \E k \in 1..Len(queue[op.client_id]) : queue[op.client_id][k] = op


\* C21: a delete is atomic on the log: when a client creates a delete
\* operation for an insert that is live, after the step either the insert
\* is tombstoned and the delete record is in the log, or neither.
DeleteAtomic ==
    [][\A d \in appended' \ appended :
          d.operation_type = "delete" =>
              \A i \in 1..Len(serverOps) :
                  (serverOps[i].id = d.undoes_operation_id /\ ~serverOps[i].is_undone)
                  => (serverOps'[i].is_undone <=> Delivered(serverOps', d))]_vars


\* the number of live inserts of a log
LiveCount(ops) ==
    Cardinality({k \in 1..Len(ops) :
                    ops[k].operation_type = "insert" /\ ~ops[k].is_undone})

\* C22: an edit at an index outside the text of the client's log (an insert
\* behind its end, a delete where it has no live character) changes nothing:
\* no step is such an edit.
InvalidRejected ==
    [][\A c \in Clients : \A i \in 0..Len(text[c]) :
          \A net \in Outcomes, tie \in TieOrders :
              /\ i > LiveCount(operations[c]) => ~handleInsert(c, i, Letter[c], net, tie)
              /\ i >= LiveCount(operations[c]) => ~handleDelete(c, i, net, tie)]_vars

\* a window shows more characters than its log has live inserts, so that the
\* textarea can ask for an index the log does not have
InvalidRejectedWitness ==
    \E c \in Clients :
        /\ user[c] # NULL /\ ~isApplyingRemoteChanges[c]
        /\ Len(text[c]) > LiveCount(operations[c])
        /\ Cardinality(appended) < MaxOps


\* client c has no record of its own left to undo in its log
NothingToUndo(c) ==
    \A k \in 1..Len(operations[c]) :
        operations[c][k].client_id # c \/ operations[c][k].is_undone

\* C23: undo by a client that has nothing to undo changes nothing: no step
\* is such an undo.
UndoNoop ==
    [][\A c \in Clients : \A net \in Outcomes, tie \in TieOrders :
          NothingToUndo(c) => ~handleUndo(c, net, tie)]_vars

\* a client whose log holds the other client's live insert and nothing of
\* its own
UndoNoopWitness ==
    \E c \in Clients :
        /\ user[c] # NULL /\ isOnline[c] /\ NothingToUndo(c)
        /\ \E k \in 1..Len(operations[c]) : IsLiveInsert(operations[c][k])


\* C24: one undo reverts the whole burst a client typed, not one keystroke:
\* a step that tombstones a record of the log by undo tombstones every
\* record of its author typed since the last boundary (none is signalled).
UndoRevertsBurst ==
    [][\A i \in 1..Len(serverOps) :
          (~serverOps[i].is_undone /\ serverOps'[i].is_undone) =>
              \A j \in 1..Len(serverOps) :
                  serverOps[j].client_id = serverOps[i].client_id
                  => serverOps'[j].is_undone]_vars


\* C26: a change event of n characters creates n operations: a paste of n
\* characters n inserts, a selection of n characters deleted n tombstones.
OneOperationPerCharacter ==
    [][(step' = step + 1 /\ Entry.act \in {"paste", "cut"}) =>
          /\ Cardinality(appended' \ appended) = Len(Entry.ch)
          /\ Entry.act = "cut" =>
                Cardinality({i \in 1..Len(serverOps) :
                    ~serverOps[i].is_undone /\ serverOps'[i].is_undone}) = Len(Entry.ch)]_vars


\* C29: a delete targets the insert whose character the window shows at the
\* index: the delete operation a change event creates refers to a record
\* of the character that the event took out of the text.
DeleteTargetsDisplayed ==
    [][(step' = step + 1 /\ Entry.act = "cut") =>
          \A d \in appended' \ appended :
              \E k \in 1..Len(operations[Entry.c]) :
                  /\ operations[Entry.c][k].id = d.undoes_operation_id
                  /\ operations[Entry.c][k].character = Entry.ch[1]]_vars


\* C27: tick adds exactly 1 and returns the new value, updateClock sets the
\* counter to the maximum of both plus 1; a client's counter never
\* decreases, a new operation carries its counter plus 1, the counter is
\* above every timestamp of a log just applied, and two operations of one
\* client never carry the same timestamp.
ClockArithmetic ==
    [][\A c \in Clients :
          /\ tick(lamportClock[c]) = lamportClock[c] + 1
          /\ \A k \in 1..Len(serverOps) :
                \E r \in {serverOps[k].lamport_timestamp} :
                    updateClock(lamportClock[c], r)
                        = (IF lamportClock[c] >= r THEN lamportClock[c] ELSE r) + 1
          /\ lamportClock'[c] >= lamportClock[c]
          /\ \A op \in appended' \ appended :
                op.client_id = c =>
                    /\ op.lamport_timestamp = lamportClock[c] + 1
                    /\ lamportClock'[c] >= op.lamport_timestamp
          /\ operations'[c] # operations[c] =>
                \A k \in 1..Len(operations'[c]) :
                    lamportClock'[c] > operations'[c][k].lamport_timestamp
          /\ \A p, q \in appended' :
                (p.client_id = c /\ q.client_id = c /\ p # q)
                => p.lamport_timestamp # q.lamport_timestamp]_vars

\* a client has ticked and has taken the other client's timestamp from a fetch
ClockArithmeticWitness ==
    \E c \in Clients :
        /\ lamportClock[c] >= 3
        /\ \E op \in appended : op.client_id = c
        /\ \E k \in 1..Len(operations[c]) : operations[c][k].client_id # c


\* the position of the live insert that has k - 1 live inserts before it in
\* the key order
RankedPosition(keyed, k) ==
    LET live == {i \in 1..Len(keyed) :
                    keyed[i].op.operation_type = "insert" /\ ~keyed[i].op.is_undone}
        rank(i) == 1 + Cardinality({j \in live :
                        \/ KeyBefore(keyed[j], keyed[i])
                        \/ ~KeyBefore(keyed[i], keyed[j]) /\ j < i})
    IN  keyed[CHOOSE i \in live : rank(i) = k].op.position

\* C28: for every log and every index from 0 to the number n of its live
\* inserts, findPositionAtIndex returns the position of the live insert at text offset
\* index - 1 as prevPos (none at 0) and of the one at offset index as nextPos
\* (none at n), offsets counted in the order of the projection.
LocateBrackets ==
    \A log \in {operations[c] : c \in Clients} \cup {serverOps} :
        \E keyed \in {Parsed(log)}, n \in {LiveCount(log)} :
            \A index \in 0..n :
                \E posData \in {findPositionAtIndex(log, index)} :
                    /\ posData # NULL
                    /\ posData.prevPos =
                          (IF index > 0 THEN RankedPosition(keyed, index) ELSE NULL)
                    /\ posData.nextPos =
                          (IF index < n THEN RankedPosition(keyed, index + 1) ELSE NULL)

\* a log with a tombstoned insert among live ones, looked up inside the text
LocateBracketsWitness ==
    /\ LiveCount(serverOps) >= 3
    /\ \E k \in 1..Len(serverOps) :
          serverOps[k].operation_type = "insert" /\ serverOps[k].is_undone
    /\ \E posData \in {findPositionAtIndex(serverOps, 2)} :
          posData.prevPos # NULL /\ posData.nextPos # NULL


\* C30: undo reverts an insert by appending a delete operation: a step that
\* tombstones a record by undo adds to the log a delete record that refers
\* to it and carries the undoing client's id and a later timestamp.
UndoAppendsDelete ==
    [][\A i \in 1..Len(serverOps) :
          (~serverOps[i].is_undone /\ serverOps'[i].is_undone) =>
              \E j \in (Len(serverOps) + 1)..Len(serverOps') :
                  /\ serverOps'[j].operation_type = "delete"
                  /\ serverOps'[j].undoes_operation_id = serverOps[i].id
                  /\ serverOps'[j].client_id = serverOps[i].client_id
                  /\ serverOps'[j].lamport_timestamp > serverOps[i].lamport_timestamp]_vars

\* C31: the text is derived from the log: in every state the text a window
\* shows is buildDocument of the operations that window holds.
TextDerived ==
    \A c \in Clients : text[c] = buildDocument(operations[c])

\* C32: after a successful fetchOperations the window reflects the backend's
\* log: a handler step of an online window whose create or update and whose
\* fetch succeeded leaves the window with the backend's records, tombstone
\* flags included, and with the text projected from them.
FetchReflectsServer ==
    [][(step' = step + 1 /\ Entry.act \in {"insert", "undo"} /\ isOnline[Entry.c]) =>
          /\ SameRecords(operations'[Entry.c], serverOps')
          /\ text'[Entry.c] = buildDocument(serverOps')]_vars

\* C33: clearing the queue at the end of a replay removes only operations
\* that were sent: an operation that is in a client's queue before a step and
\* not after it has a record in the log after the step, also when it was
\* enqueued while the replay was running.  Stated for the steps of a client
\* whose network is up.
QueueKeepsUnsent ==
    [][\A c \in Clients : \A k \in 1..Len(queue[c]) :
          (/\ isOnline[c]
           /\ \A j \in 1..Len(queue'[c]) : queue'[c][j] # queue[c][k]) =>
              Delivered(serverOps', queue[c][k])]_vars

\* C34: at most one replay runs on a client's queue: while a replay has
\* creates to await, a step that hands an operation of the queue to the
\* backend hands over the next operation of that replay; a second call of
\* processQueue made meanwhile sends nothing.
OneReplay ==
    [][\A c \in Clients : replaying[c] # <<>> =>
          \A k \in (Len(serverOps) + 1)..Len(serverOps') :
              (\E j \in 1..Len(queue[c]) : queue[c][j] = Core(serverOps'[k])) =>
                  /\ Core(serverOps'[k]) = Head(replaying[c])
                  /\ replaying'[c] = Tail(replaying[c])]_vars

\* a replay has sent the first of two buffered operations and awaits the
\* create of the second while the replay effect's condition holds, so that a
\* render calls processQueue again
OneReplayWitness ==
    \E c \in Clients :
        /\ isOnline[c] /\ Len(queue[c]) = 2
        /\ replaying[c] = <<queue[c][2]>>
        /\ Delivered(serverOps, queue[c][1])
        /\ ~Delivered(serverOps, queue[c][2])

RECURSIVE InCreationOrder(_)
InCreationOrder(S) ==
    IF S = {} THEN <<>>
    ELSE LET first == CHOOSE op \in S :
                          \A o \in S : op.lamport_timestamp <= o.lamport_timestamp
         IN  <<first>> \o InCreationOrder(S \ {first})

\* the records a window knows of: those of its last applied fetch and the
\* operations it has created itself that are not among them
Known(c, ops, created) ==
    ops \o InCreationOrder({op \in created : op.client_id = c /\ ~Delivered(ops, op)})

\* C35: an insert goes where the client put it: when a window that shows
\* the text of the records it knows of inserts a character, the text it
\* shows afterwards is the text projected from those records and the new
\* operation, also when it has made other inserts since its last fetch.
IntentionPreserved ==
    [][\A c \in Clients :
          (/\ \E op \in appended' \ appended :
                  op.client_id = c /\ op.operation_type = "insert"
           /\ text[c] = buildDocument(Known(c, operations[c], appended)))
          => text'[c] = buildDocument(Known(c, operations'[c], appended'))]_vars

\* C36: tombstones are monotonic: a record of the backend's log whose
\* is_undone flag is set keeps its place and its flag in every later step,
\* and a window that holds a copy with the flag set never holds a copy of
\* that record without it afterwards.
TombstonesMonotonic ==
    [][/\ \A i \in 1..Len(serverOps) :
             serverOps[i].is_undone =>
                 /\ i <= Len(serverOps')
                 /\ serverOps'[i].id = serverOps[i].id
                 /\ serverOps'[i].is_undone
       /\ \A c \in Clients : \A k \in 1..Len(operations[c]) :
             operations[c][k].is_undone =>
                 \A j \in 1..Len(operations'[c]) :
                     operations'[c][j].id = operations[c][k].id =>
                         operations'[c][j].is_undone]_vars

\* a record was tombstoned by a delete of one window, and the other window
\* has fetched the log since and holds the record with its flag
TombstonesMonotonicWitness ==
    \E i, j \in 1..Len(serverOps) : \E c \in Clients :
        /\ serverOps[i].is_undone
        /\ serverOps[j].operation_type = "delete"
        /\ serverOps[j].undoes_operation_id = serverOps[i].id
        /\ serverOps[j].client_id # c
        /\ \E k \in 1..Len(operations[c]) :
              operations[c][k].id = serverOps[i].id /\ operations[c][k].is_undone

\* C37: undo of a delete restores the deleted character: a step that undoes
\* a delete record leaves the insert that record refers to live in the log,
\* and changes the text projected from the log.
UndoRestoresDeleted ==
    [][\A i \in 1..Len(serverOps) :
          (/\ serverOps[i].operation_type = "delete"
           /\ ~serverOps[i].is_undone
           /\ serverOps'[i].is_undone)
          => /\ \E k \in 1..Len(serverOps') :
                   /\ serverOps'[k].id = serverOps[i].undoes_operation_id
                   /\ IsLiveInsert(serverOps'[k])
             /\ buildDocument(serverOps') # buildDocument(serverOps)]_vars

\* C38: no local edit is dropped because it coincides with the application
\* of a remote change: in every state of a signed-in window, the flag of a
\* running refresh included, handleTextChange takes up a change event.
EditsNotDropped ==
    \A c \in Clients : user[c] # NULL => ~Ignored(c)

====
